---- MODULE Spec2Model ----
(***************************************************************************)
(* Model of morse_printer.py: the main loop of main() that reads decoded   *)
(* lines from multimon-ng, keeps the 15 second rolling buffer, detects a   *)
(* response to the configured call sign and prints a QSO in real time.     *)
(*                                                                         *)
(* Strings are sequences of one-character strings, so that upper(),        *)
(* strip(), the substring test and the two regular expressions are         *)
(* computed character by character as Python computes them.                *)
(***************************************************************************)
EXTENDS Integers, Sequences, FiniteSets, TLC

VARIABLES
    cfg,                \* the dict returned by load_config()
    clock,              \* what time.time() would return; it never goes back
    now,                \* main's local `now`, the last reading of time.time()
    rolling_buffer,     \* main's deque of (timestamp, line)
    awaiting_response,  \* main's flag
    printing_active,    \* main's flag
    out,                \* the printer.text() / printer.cut() calls made for the last line
    fails,              \* how many printer calls have raised so far
    last,               \* history: the last line that reached the machine
    qso_end,            \* history: arrival number of the last terminating line
    pc,                 \* where main is: "init_printer", "start_rtl_fm", "loop",
                        \* "close", "terminate", "returned" or "raised"
    printer,            \* main's printer: its class and the close() calls made
    decoder,            \* main's decoder process: "none", "running", "terminated"
    exit                \* history: how the loop was left, "none" while it runs

\* What the steps of the main loop leave alone
lifecycle == <<pc, printer, decoder, exit>>

vars == <<cfg, clock, now, rolling_buffer, awaiting_response, printing_active,
          out, fails, last, qso_end, pc, printer, decoder, exit>>

-----------------------------------------------------------------------------
(* Bounds of the model *)

MaxLines == 5       \* lines that reach the machine in one run
MaxTime == 31       \* the clock stops advancing here
MaxFail == 1        \* printer calls that raise in one run
MaxRunLines == 3    \* lines that reach the machine in a run followed from
                    \* start-up to exit

\* The clock advances in steps that hit the window exactly and just past it.
Deltas == {15, 16}

-----------------------------------------------------------------------------
(* Characters and the string functions of Python that the code uses *)

LowerSeq == <<"a","b","c","d","e","f","g","h","i","j","k","l","m",
              "n","o","p","q","r","s","t","u","v","w","x","y","z">>
UpperSeq == <<"A","B","C","D","E","F","G","H","I","J","K","L","M",
              "N","O","P","Q","R","S","T","U","V","W","X","Y","Z">>
Digits == {"0","1","2","3","4","5","6","7","8","9"}
Whitespace == {" ", "\n", "\t", "\r"}

Range(s) == {s[i] : i \in 1..Len(s)}

Alnum == Range(LowerSeq) \cup Range(UpperSeq) \cup Digits

IsAlnum(c) == c \in Alnum
IsWordChar(c) == IsAlnum(c) \/ c = "_"

UpperChar(c) ==
    IF \E i \in 1..26 : LowerSeq[i] = c
    THEN UpperSeq[CHOOSE i \in 1..26 : LowerSeq[i] = c]
    ELSE c

\* str.upper()
Upper(s) == [i \in 1..Len(s) |-> UpperChar(s[i])]

\* str.strip()
Strip(s) ==
    LET keep == {i \in 1..Len(s) : s[i] \notin Whitespace}
    IN  IF keep = {} THEN <<>>
        ELSE LET lo == CHOOSE i \in keep : \A j \in keep : i <= j
                 hi == CHOOSE i \in keep : \A j \in keep : j <= i
             IN  SubSeq(s, lo, hi)

\* str.startswith(p)
StartsWith(s, p) == Len(s) >= Len(p) /\ SubSeq(s, 1, Len(p)) = p

\* p in s
Contains(s, p) ==
    \E i \in 1..(Len(s) - Len(p) + 1) : SubSeq(s, i, i + Len(p) - 1) = p

\* "\n".join(lines)
RECURSIVE Join(_)
Join(lines) ==
    IF lines = <<>> THEN <<>>
    ELSE IF Len(lines) = 1 THEN lines[1]
    ELSE lines[1] \o <<"\n">> \o Join(Tail(lines))

-----------------------------------------------------------------------------
(* QSO termination detection *)

TERMINATION_TOKENS == {
    <<"7","3">>, <<"S","K">>, <<"R","R">>,
    <<"E","N","D"," ","O","F"," ","C","A","L","L">>,
    <<"E","N","D"," ","O","F"," ","C","O","N","T","A","C","T">>,
    <<"D","I","T"," ","D","I","T">>,
    <<"D","I","T"," ","D","I","T"," ","D","I","T">>,
    <<"D","E">>, <<"7","3","+">>, <<"7","3","!">> }

\* \b between s[p] and s[p+1]; outside the string counts as a non-word character
WordBoundary(s, p) ==
    LET before == p >= 1 /\ p <= Len(s) /\ IsWordChar(s[p])
        after  == p + 1 >= 1 /\ p + 1 <= Len(s) /\ IsWordChar(s[p + 1])
    IN  before # after

\* TERMINATION_REGEX.search(line): \b(tok1|tok2|...)\b, re.I
TERMINATION_REGEX(line) ==
    \E tok \in TERMINATION_TOKENS :
        \E i \in 1..(Len(line) - Len(tok) + 1) :
            /\ Upper(SubSeq(line, i, i + Len(tok) - 1)) = tok
            /\ WordBoundary(line, i - 1)
            /\ WordBoundary(line, i + Len(tok) - 1)

is_termination(line) == TERMINATION_REGEX(line)

-----------------------------------------------------------------------------
(* Call sign extraction *)

AlnumAt(s, i) == i >= 1 /\ i <= Len(s) /\ IsAlnum(s[i])
DigitAt(s, i) == i >= 1 /\ i <= Len(s) /\ s[i] \in Digits

\* The longest run of alphanumerics starting at i, at most max long
RunLen(s, i, max) ==
    LET ok == {k \in 0..max : \A j \in 0..(k - 1) : AlnumAt(s, i + j)}
    IN  CHOOSE k \in ok : \A m \in ok : m <= k

\* CALLSIGN_REGEX matched at position i: the index of the last character of
\* the match, or 0 when there is none.
\* [A-Z0-9]{1,2}[0-9][A-Z0-9]{1,4}(?:/[A-Z0-9]+)?  with re.I, greedy
CALLSIGN_REGEX(s, i) ==
    LET fits(p) == /\ \A j \in 0..(p - 1) : AlnumAt(s, i + j)
                   /\ DigitAt(s, i + p)
                   /\ AlnumAt(s, i + p + 1)
        p    == IF fits(2) THEN 2 ELSE IF fits(1) THEN 1 ELSE 0
        k    == RunLen(s, i + p + 1, 4)
        e    == i + p + k           \* last character of [A-Z0-9]{1,4}
        suf  == IF e + 1 <= Len(s) /\ s[e + 1] = "/"
                THEN RunLen(s, e + 2, Len(s)) ELSE 0
    IN  IF p = 0 THEN 0
        ELSE IF suf > 0 THEN e + 1 + suf ELSE e

\* CALLSIGN_REGEX.findall(text), upper-cased, from position i on
RECURSIVE FindAll(_, _)
FindAll(s, i) ==
    IF i > Len(s) THEN {}
    ELSE LET e == CALLSIGN_REGEX(s, i)
         IN  IF e = 0 THEN FindAll(s, i + 1)
             ELSE {Upper(SubSeq(s, i, e))} \cup FindAll(s, e + 1)

extract_callsigns(text) == FindAll(text, 1)

\* contains_callsign without the test for an empty call sign
contains_callsign_any(line, c) ==
    IF ~c.filter_enabled THEN FALSE
    ELSE Contains(Upper(line), c.call_sign)

contains_callsign(line, c) ==
    IF ~c.filter_enabled \/ c.call_sign = <<>> THEN FALSE
    ELSE Contains(Upper(line), c.call_sign)

\* all_calls without the discard of the configured call sign
all_calls_keeps_target(line, c) == extract_callsigns(line)

\* Lines 177-178: all_calls after discard(cfg["call_sign"])
all_calls(line, c) == extract_callsigns(line) \ {c.call_sign}

is_valid_response(line, c) == Cardinality(all_calls(line, c)) > 0

-----------------------------------------------------------------------------
(* The environment: configurations, decoder output, the clock *)

K1A == <<"K","1","A">>

\* The two keys of DEFAULTS that the main loop reads
DEFAULTS == [filter_enabled |-> FALSE, call_sign |-> <<>>]

\* What yaml.safe_load gives for config.yaml: no file or an empty one, a call
\* sign in upper case, one in lower case, and the filter enabled with no
\* call_sign key.
UserConfigs == {
    <<>>,
    [filter_enabled |-> TRUE, call_sign |-> K1A],
    [filter_enabled |-> TRUE, call_sign |-> <<"k","1","a">>],
    [filter_enabled |-> TRUE] }

\* load_config: the defaults, overridden key by key with the user's values
\* as they are written in the file
load_config(user_cfg) ==
    [key \in DOMAIN DEFAULTS |->
        IF key \in DOMAIN user_cfg THEN user_cfg[key] ELSE DEFAULTS[key]]

\* The configurations a run can start with
Configs == {load_config(user_cfg) : user_cfg \in UserConfigs}

\* Lines of decoder.stdout. The first four reach the machine, the others are
\* dropped by the checks at the top of the loop.
RawTarget   == <<"C","W",":"," ","k","1","a"," ","K","1","A","\n">>
RawForeign  == <<"C","W",":"," ","W","2","B","\n">>
RawReply    == <<"C","W",":","K","1","A"," ","D","E"," ","W","2","B"," ","\n">>
RawBye      == <<"C","W",":"," ","7","3","\n">>
RawBlank    == <<" ","\n">>
RawOther    == <<"F","S","K",":"," ","7","3","\n">>
RawEmptyMsg == <<"C","W",":"," ","\n">>

RawLines == {RawTarget, RawForeign, RawReply, RawBye,
             RawBlank, RawOther, RawEmptyMsg}

\* Lines 219-229: the message of a raw line, <<>> when the loop skips it
Decode(raw) ==
    LET raw_line == Strip(raw)
    IN  IF raw_line = <<>> THEN <<>>
        ELSE IF ~StartsWith(raw_line, <<"C","W",":">>) THEN <<>>
        ELSE Strip(SubSeq(raw_line, 4, Len(raw_line)))

\* The messages that reach the machine
Messages == {Decode(raw) : raw \in RawLines} \ {<<>>}

\* The three predicates on the messages and configurations of the model,
\* evaluated once
termination == [m \in Messages |-> is_termination(m)]
heard == [m \in Messages, c \in Configs |-> contains_callsign(m, c)]
valid == [m \in Messages, c \in Configs |-> is_valid_response(m, c)]

ROLLING_WINDOW == 15

-----------------------------------------------------------------------------
(* The printer *)

Raised(s) == Cardinality({i \in 1..Len(s) : ~s[i].ok})

\* One call of the printer, as recorded in out. site is the place of the call
\* in main ("disabled", "lead_in", "response", "active"), src the buffer
\* entries the text was built from, active the value of printing_active when
\* the call is made.
Call(op, arg, ok, site, src, active) ==
    [op |-> op, arg |-> arg, ok |-> ok, site |-> site, src |-> src,
     active |-> active]

\* cut() called even after text() raised
PrintAction_cuts_anyway(s, arg, site, src, active) ==
    LET t(ok) == Call("text", arg, ok, site, src, active)
        c(ok) == Call("cut", <<>>, ok, site, <<>>, active)
    IN  {s \o <<t(TRUE), c(TRUE)>>}
        \cup IF printer.class = "Usb" /\ fails + Raised(s) < MaxFail
             THEN {s \o <<t(FALSE), c(TRUE)>>, s \o <<t(TRUE), c(FALSE)>>}
             ELSE {}

\* try: printer.text(arg); printer.cut()  except Exception: log
\* The set of call sequences that can follow s: both calls succeed, text()
\* raises (and cut() is not reached), or cut() raises.
PrintAction(s, arg, site, src, active) ==
    LET t(ok) == Call("text", arg, ok, site, src, active)
        c(ok) == Call("cut", <<>>, ok, site, <<>>, active)
    IN  {s \o <<t(TRUE), c(TRUE)>>}
        \cup IF printer.class = "Usb" /\ fails + Raised(s) < MaxFail
             THEN {s \o <<t(FALSE)>>, s \o <<t(TRUE), c(FALSE)>>}
             ELSE {}

-----------------------------------------------------------------------------
(* The rolling buffer *)

\* The eviction with `if` in place of `while`: at most one entry is popped
Evict_once(buf, t) ==
    IF buf # <<>> /\ t - buf[1].ts > ROLLING_WINDOW THEN Tail(buf) ELSE buf

\* No eviction at all
Evict_never(buf, t) == buf

\* The eviction with >= in place of >: an entry of age 15 is popped
Evict_at_window(buf, t) ==
    SelectSeq(buf, LAMBDA e : t - e.ts < ROLLING_WINDOW)

\* while rolling_buffer and now - rolling_buffer[0][0] > ROLLING_WINDOW: popleft()
RECURSIVE Evict(_, _)
Evict(buf, t) ==
    IF buf # <<>> /\ t - buf[1].ts > ROLLING_WINDOW
    THEN Evict(Tail(buf), t)
    ELSE buf

\* The name of the state the two flags encode, in the order main tests them
State ==
    IF printing_active THEN "Active"
    ELSE IF awaiting_response THEN "Awaiting"
    ELSE "Idle"

\* Lines 248-251: append (now, msg) and evict. n and st are history: the
\* arrival number of the line and the state it was received in.
Buffered(msg) ==
    Evict(Append(rolling_buffer,
                 [ts |-> clock, line |-> msg, n |-> last.n + 1, st |-> State]),
          clock)

\* The whole buffer as lead-in, lines with the call sign included
lead_in_unfiltered(buf, c) == buf

\* Lines 267-270: the entries of the buffer that do not contain the call sign
lead_in(buf, c) ==
    SelectSeq(buf, LAMBDA e : ~heard[e.line, c])

Lines(entries) == [i \in 1..Len(entries) |-> entries[i].line]

\* The response printed before the lead-in
Flush_response_first(buf, c, msg) ==
    LET flush == SelectSeq(buf, LAMBDA e : ~heard[e.line, c])
        first == PrintAction(<<>>, msg \o <<"\n">>, "response", <<>>, TRUE)
    IN  IF flush = <<>> THEN first
        ELSE UNION {PrintAction(s, Join([i \in 1..Len(flush) |-> flush[i].line])
                                      \o <<"\n">>,
                                "lead_in", flush, TRUE) : s \in first}

\* Lines 267-283: the calls made on a valid response msg with buffer buf:
\* the lead-in in one text() and a cut() if there is any, then the response.
Flush(buf, c, msg) ==
    LET flush == lead_in(buf, c)
        first == IF flush # <<>>
                 THEN PrintAction(<<>>, Join(Lines(flush)) \o <<"\n">>,
                                  "lead_in", flush, TRUE)
                 ELSE {<<>>}
    IN  UNION {PrintAction(s, msg \o <<"\n">>, "response", <<>>, TRUE) :
               s \in first}

-----------------------------------------------------------------------------
(* The state machine *)

Init ==
    /\ cfg \in Configs
    /\ clock = 0
    /\ now = 0
    /\ rolling_buffer = <<>>
    /\ awaiting_response = FALSE
    /\ printing_active = FALSE
    /\ out = <<>>
    /\ fails = 0
    /\ last = [n |-> 0, msg |-> <<>>, before |-> "Idle"]
    /\ qso_end = 0
    /\ pc = "loop"
    /\ printer = [class |-> "Usb", closed |-> 0, close_raised |-> FALSE]
    /\ decoder = "running"
    /\ exit = "none"

\* Time passes while the loop is blocked on decoder.stdout
Tick(d) ==
    /\ pc = "loop"
    /\ clock + d <= MaxTime
    /\ clock' = clock + d
    /\ UNCHANGED <<lifecycle, cfg, now, rolling_buffer, awaiting_response,
                   printing_active, out, fails, last, qso_end>>

\* Lines 219-229: a blank line, a line of another mode, an empty message
Skipped(raw) ==
    /\ pc = "loop"
    /\ Decode(raw) = <<>>
    /\ UNCHANGED vars

\* The line passed the checks of lines 219-229 (and the run is within bounds)
Kept(msg) == pc = "loop" /\ msg \in Messages /\ last.n < MaxLines

Received(msg) == [n |-> last.n + 1, msg |-> msg, before |-> State]

\* Filter disabled without the `continue`: the line is printed and then
\* falls through to the buffer and the state machine
DisabledLine_falls_through(msg) ==
    /\ Kept(msg)
    /\ ~cfg.filter_enabled
    /\ out' \in PrintAction(<<>>, msg \o <<"\n">>, "disabled", <<>>,
                             printing_active)
    /\ fails' = fails + Raised(out')
    /\ last' = Received(msg)
    /\ now' = clock
    /\ rolling_buffer' = Buffered(msg)
    /\ UNCHANGED <<lifecycle, cfg, clock, awaiting_response, printing_active, qso_end>>

\* Lines 237-243: filter disabled, print the line and continue
DisabledLine(msg) ==
    /\ Kept(msg)
    /\ ~cfg.filter_enabled
    /\ out' \in PrintAction(<<>>, msg \o <<"\n">>, "disabled", <<>>,
                             printing_active)
    /\ fails' = fails + Raised(out')
    /\ last' = Received(msg)
    /\ UNCHANGED <<lifecycle, cfg, clock, now, rolling_buffer, awaiting_response,
                   printing_active, qso_end>>

\* Hearing the call sign starts printing at once: the wrong flag is set
IdleLine_starts_printing(msg) ==
    /\ Kept(msg)
    /\ cfg.filter_enabled
    /\ ~printing_active /\ ~awaiting_response
    /\ now' = clock
    /\ rolling_buffer' = Buffered(msg)
    /\ printing_active' = heard[msg, cfg]
    /\ last' = Received(msg)
    /\ out' = <<>>
    /\ UNCHANGED <<lifecycle, cfg, clock, awaiting_response, fails, qso_end>>

\* The call sign counts as heard only on a line with no other call sign
IdleLine_needs_bare_call(msg) ==
    /\ Kept(msg)
    /\ cfg.filter_enabled
    /\ ~printing_active /\ ~awaiting_response
    /\ now' = clock
    /\ rolling_buffer' = Buffered(msg)
    /\ awaiting_response' = (heard[msg, cfg] /\ ~valid[msg, cfg])
    /\ last' = Received(msg)
    /\ out' = <<>>
    /\ UNCHANGED <<lifecycle, cfg, clock, printing_active, fails, qso_end>>

\* Lines 289-296: the call sign has not been heard yet
IdleLine(msg) ==
    /\ Kept(msg)
    /\ cfg.filter_enabled
    /\ ~printing_active /\ ~awaiting_response
    /\ now' = clock
    /\ rolling_buffer' = Buffered(msg)
    /\ awaiting_response' = heard[msg, cfg]
    /\ last' = Received(msg)
    /\ out' = <<>>
    /\ UNCHANGED <<lifecycle, cfg, clock, printing_active, fails, qso_end>>

\* The response starts printing but awaiting_response is left set
AwaitingLine_keeps_waiting(msg) ==
    /\ Kept(msg)
    /\ cfg.filter_enabled
    /\ ~printing_active /\ awaiting_response
    /\ now' = clock
    /\ rolling_buffer' = Buffered(msg)
    /\ last' = Received(msg)
    /\ IF valid[msg, cfg]
       THEN /\ printing_active' = TRUE
            /\ out' \in Flush(rolling_buffer', cfg, msg)
       ELSE /\ out' = <<>>
            /\ UNCHANGED printing_active
    /\ fails' = fails + Raised(out')
    /\ UNCHANGED <<lifecycle, cfg, clock, awaiting_response, qso_end>>

\* A termination token heard while waiting cancels the wait
AwaitingLine_gives_up(msg) ==
    /\ Kept(msg)
    /\ cfg.filter_enabled
    /\ ~printing_active /\ awaiting_response
    /\ now' = clock
    /\ rolling_buffer' = Buffered(msg)
    /\ last' = Received(msg)
    /\ IF valid[msg, cfg]
       THEN /\ printing_active' = TRUE
            /\ awaiting_response' = FALSE
            /\ out' \in Flush(rolling_buffer', cfg, msg)
       ELSE /\ out' = <<>>
            /\ awaiting_response' = ~termination[msg]
            /\ UNCHANGED printing_active
    /\ fails' = fails + Raised(out')
    /\ UNCHANGED <<lifecycle, cfg, clock, qso_end>>

\* Lines 259-287: the call sign was heard, wait for another station
AwaitingLine(msg) ==
    /\ Kept(msg)
    /\ cfg.filter_enabled
    /\ ~printing_active /\ awaiting_response
    /\ now' = clock
    /\ rolling_buffer' = Buffered(msg)
    /\ last' = Received(msg)
    /\ IF valid[msg, cfg]
       THEN /\ printing_active' = TRUE
            /\ awaiting_response' = FALSE
            /\ out' \in Flush(rolling_buffer', cfg, msg)
       ELSE /\ out' = <<>>
            /\ UNCHANGED <<printing_active, awaiting_response>>
    /\ fails' = fails + Raised(out')
    /\ UNCHANGED <<lifecycle, cfg, clock, qso_end>>

\* The termination test made before the print: the closing line of a QSO
\* is not printed
ActiveLine_silent_end(msg) ==
    /\ Kept(msg)
    /\ cfg.filter_enabled
    /\ printing_active
    /\ now' = clock
    /\ last' = Received(msg)
    /\ IF termination[msg]
       THEN /\ out' = <<>>
            /\ printing_active' = FALSE
            /\ awaiting_response' = FALSE
            /\ rolling_buffer' = <<>>
            /\ qso_end' = last.n + 1
       ELSE /\ out' \in PrintAction(<<>>, msg \o <<"\n">>, "active", <<>>,
                                    printing_active)
            /\ rolling_buffer' = Buffered(msg)
            /\ UNCHANGED <<printing_active, awaiting_response, qso_end>>
    /\ fails' = fails + Raised(out')
    /\ UNCHANGED <<lifecycle, cfg, clock>>

\* The reset at the end of a QSO without rolling_buffer.clear()
ActiveLine_keeps_buffer(msg) ==
    /\ Kept(msg)
    /\ cfg.filter_enabled
    /\ printing_active
    /\ now' = clock
    /\ last' = Received(msg)
    /\ out' \in PrintAction(<<>>, msg \o <<"\n">>, "active", <<>>,
                             printing_active)
    /\ fails' = fails + Raised(out')
    /\ rolling_buffer' = Buffered(msg)
    /\ IF termination[msg]
       THEN /\ printing_active' = FALSE
            /\ awaiting_response' = FALSE
            /\ qso_end' = last.n + 1
       ELSE UNCHANGED <<printing_active, awaiting_response, qso_end>>
    /\ UNCHANGED <<lifecycle, cfg, clock>>

\* Lines 301-312: a QSO is being printed
ActiveLine(msg) ==
    /\ Kept(msg)
    /\ cfg.filter_enabled
    /\ printing_active
    /\ now' = clock
    /\ last' = Received(msg)
    /\ out' \in PrintAction(<<>>, msg \o <<"\n">>, "active", <<>>,
                             printing_active)
    /\ fails' = fails + Raised(out')
    /\ IF termination[msg]
       THEN /\ printing_active' = FALSE
            /\ awaiting_response' = FALSE
            /\ rolling_buffer' = <<>>
            /\ qso_end' = last.n + 1
       ELSE /\ rolling_buffer' = Buffered(msg)
            /\ UNCHANGED <<printing_active, awaiting_response, qso_end>>
    /\ UNCHANGED <<lifecycle, cfg, clock>>

\* One iteration of `for raw_line in decoder.stdout`, or time passing
Next ==
    \/ \E d \in Deltas : Tick(d)
    \/ \E raw \in RawLines : Skipped(raw)
    \/ \E raw \in RawLines : DisabledLine(Decode(raw))
    \/ \E raw \in RawLines : IdleLine(Decode(raw))
    \/ \E raw \in RawLines : AwaitingLine(Decode(raw))
    \/ \E raw \in RawLines : ActiveLine(Decode(raw))

Spec == Init /\ [][Next]_vars

-----------------------------------------------------------------------------
(* A whole run of main(), from the opening of the printer to the exit *)

machine == <<cfg, clock, now, rolling_buffer, awaiting_response,
             printing_active, out, fails, last, qso_end>>

\* Lines 186-201: the configuration is loaded, nothing is open yet
InitRun ==
    /\ cfg \in Configs
    /\ clock = 0
    /\ now = 0
    /\ rolling_buffer = <<>>
    /\ awaiting_response = FALSE
    /\ printing_active = FALSE
    /\ out = <<>>
    /\ fails = 0
    /\ last = [n |-> 0, msg |-> <<>>, before |-> "Idle"]
    /\ qso_end = 0
    /\ pc = "init_printer"
    /\ printer = [class |-> "none", closed |-> 0, close_raised |-> FALSE]
    /\ decoder = "none"
    /\ exit = "none"

\* Lines 202-206, 118-128: Usb(...) or, when it raises, the DummyPrinter
init_printer ==
    /\ pc = "init_printer"
    /\ \E class \in {"Usb", "DummyPrinter"} :
           printer' = [printer EXCEPT !.class = class]
    /\ pc' = "start_rtl_fm"
    /\ UNCHANGED <<machine, decoder, exit>>

\* Line 207, 87-112: the three Popen calls succeed
start_rtl_fm ==
    /\ pc = "start_rtl_fm"
    /\ decoder' = "running"
    /\ pc' = "loop"
    /\ UNCHANGED <<machine, printer, exit>>

\* Line 207: a Popen raises (a program of the pipeline is not installed).
\* The call is before the try of line 217, so main ends with the exception.
start_rtl_fm_raises ==
    /\ pc = "start_rtl_fm"
    /\ pc' = "raised"
    /\ exit' = "start_failed"
    /\ UNCHANGED <<machine, printer, decoder>>

\* Line 218: decoder.stdout is at its end, the for loop is left
EndOfStream ==
    /\ pc = "loop"
    /\ pc' = "close"
    /\ exit' = "eof"
    /\ UNCHANGED <<machine, printer, decoder>>

\* Lines 314-315: Ctrl-C while the loop waits for a line
KeyboardInterrupt ==
    /\ pc = "loop"
    /\ pc' = "close"
    /\ exit' = "interrupt"
    /\ UNCHANGED <<machine, printer, decoder>>

\* Lines 218, 232: reading the line or echoing it to the console raises; the
\* line has not reached the buffer or the flags
LineError ==
    /\ pc = "loop"
    /\ pc' = "close"
    /\ exit' = "error"
    /\ UNCHANGED <<machine, printer, decoder>>

\* close() raising is not caught: the exception leaves the finally block
ClosePrinter_unguarded ==
    /\ pc = "close"
    /\ \/ /\ printer' = [printer EXCEPT !.closed = @ + 1]
          /\ pc' = "terminate"
          /\ UNCHANGED exit
       \/ /\ printer.class = "Usb"
          /\ printer' = [printer EXCEPT !.closed = @ + 1,
                                        !.close_raised = TRUE]
          /\ pc' = "raised"
          /\ exit' = "error"
    /\ UNCHANGED <<machine, decoder>>

\* Lines 318-321: try: printer.close() except Exception: pass
ClosePrinter ==
    /\ pc = "close"
    /\ \/ printer' = [printer EXCEPT !.closed = @ + 1]
       \/ /\ printer.class = "Usb"
          /\ printer' = [printer EXCEPT !.closed = @ + 1,
                                        !.close_raised = TRUE]
    /\ pc' = "terminate"
    /\ UNCHANGED <<machine, decoder, exit>>

\* Line 322: decoder.terminate(); main returns, or the error of the loop
\* goes on to the caller
TerminateDecoder ==
    /\ pc = "terminate"
    /\ decoder' = "terminated"
    /\ pc' = IF exit = "error" THEN "raised" ELSE "returned"
    /\ UNCHANGED <<machine, printer, exit>>

\* The steps of the loop, for at most MaxRunLines lines
RunDisabledLine(raw) == last.n < MaxRunLines /\ DisabledLine(Decode(raw))

RunIdleLine(raw) == last.n < MaxRunLines /\ IdleLine(Decode(raw))

RunAwaitingLine(raw) == last.n < MaxRunLines /\ AwaitingLine(Decode(raw))

RunActiveLine(raw) == last.n < MaxRunLines /\ ActiveLine(Decode(raw))

NextRun ==
    \/ init_printer
    \/ start_rtl_fm
    \/ start_rtl_fm_raises
    \/ \E d \in Deltas : Tick(d)
    \/ \E raw \in RawLines : Skipped(raw)
    \/ \E raw \in RawLines : RunDisabledLine(raw)
    \/ \E raw \in RawLines : RunIdleLine(raw)
    \/ \E raw \in RawLines : RunAwaitingLine(raw)
    \/ \E raw \in RawLines : RunActiveLine(raw)
    \/ EndOfStream
    \/ KeyboardInterrupt
    \/ LineError
    \/ ClosePrinter
    \/ TerminateDecoder

\* Once the loop is left, the finally block runs to its end
Shutdown == ClosePrinter \/ TerminateDecoder

SpecRun == InitRun /\ [][NextRun]_vars /\ WF_vars(Shutdown)

-----------------------------------------------------------------------------
(* Vocabulary of the properties *)

\* The line contains the target call sign, compared in upper case
HasTarget(line) == Contains(Upper(line), cfg.call_sign)

\* The call signs of the line that are not the target
ForeignCalls(line) == extract_callsigns(line) \ {Upper(cfg.call_sign)}

\* text.split("\n") without the final newline: the lines of a printed block
RECURSIVE SplitLines(_)
SplitLines(text) ==
    IF text = <<>> THEN <<>>
    ELSE LET ends == {i \in 1..Len(text) : text[i] = "\n"}
             e    == CHOOSE i \in ends : \A j \in ends : i <= j
         IN  <<SubSeq(text, 1, e - 1)>> \o SplitLines(SubSeq(text, e + 1, Len(text)))

\* The text() calls made for the last line, in order
Texts == SelectSeq(out, LAMBDA o : o.op = "text")

\* The calls made for the last line are print actions as main attempts them:
\* each text() that returned is followed by its cut(), and a text() that
\* raised ends its print action.
PrintActions ==
    \A i \in 1..Len(out) :
        /\ out[i].op = "text" /\ out[i].ok
               => i < Len(out) /\ out[i + 1].op = "cut"
        /\ out[i].op = "text" /\ ~out[i].ok
               => i = Len(out) \/ out[i + 1].op = "text"
        /\ out[i].op = "cut"
               => i > 1 /\ out[i - 1].op = "text" /\ out[i - 1].ok

Printed(msg) == msg \o <<"\n">>

-----------------------------------------------------------------------------
\* C1: with filtering enabled, the machine is Active after a line only if it
\* was Active before the line, or was AwaitingResponse before it and the line
\* has a call sign other than the target; it is AwaitingResponse after a line
\* only if it already was, or was Idle and the line contains the target. No
\* line takes it from Idle to Active.
C1_ActiveOnlyAfterResponse ==
    cfg.filter_enabled /\ last.n > 0 =>
        /\ State = "Active" =>
               \/ last.before = "Active"
               \/ last.before = "Awaiting" /\ ForeignCalls(last.msg) # {}
        /\ State = "Awaiting" =>
               \/ last.before = "Awaiting"
               \/ last.before = "Idle" /\ HasTarget(last.msg)
        /\ ~(last.before = "Idle" /\ State = "Active")

\* A response has just taken the machine from AwaitingResponse to Active
C1_Witness ==
    cfg.filter_enabled /\ last.before = "Awaiting" /\ State = "Active"

\* C2: with filtering disabled, a line that reaches the machine gives exactly
\* one print action, of that line (one text() of the line, then cut()), and
\* the buffer and the two flags stay as they were at start.
C2_DisabledPrintsEveryLine ==
    ~cfg.filter_enabled /\ last.n > 0 =>
        /\ Len(Texts) = 1
        /\ Texts[1].arg = Printed(last.msg)
        /\ out[1] = Texts[1]
        /\ PrintActions
        /\ rolling_buffer = <<>>
        /\ ~awaiting_response
        /\ ~printing_active

\* The second line of a run has been printed and cut with filtering disabled
C2_Witness ==
    /\ ~cfg.filter_enabled
    /\ last.n = 2
    /\ Len(out) = 2 /\ out[1].ok /\ out[2].op = "cut" /\ out[2].ok

\* C3 as stated: at every time, also while the loop waits for the next line,
\* no entry of the buffer is older than the window.
C3_NoStaleEntryAtAnyTime ==
    \A i \in 1..Len(rolling_buffer) :
        clock - rolling_buffer[i].ts <= ROLLING_WINDOW

\* C3, amended: no entry of the buffer is older than the window at the time
\* of the last line arrival (main's `now`); eviction runs on arrivals only.
C3_NoStaleEntryAtArrival ==
    \A i \in 1..Len(rolling_buffer) :
        now - rolling_buffer[i].ts <= ROLLING_WINDOW

\* The first line of the run has been evicted (nothing was cleared), the
\* buffer holds later lines, and time has passed since the last arrival
C3_Witness ==
    /\ rolling_buffer # <<>>
    /\ qso_end = 0
    /\ rolling_buffer[1].n > 1
    /\ clock > now

\* C4: in AwaitingResponse, a line with a call sign other than the target
\* (with or without the target in it) gives, in this order, one print action
\* for the lead-in block if the lead-in is not empty, none if it is, then one
\* print action for the line, and the machine is Active. The lead-in block
\* is one text() of the lead-in lines, the buffered lines without the target
\* in them, joined in arrival order.
C4_LeadInThenResponse ==
    cfg.filter_enabled /\ last.before = "Awaiting"
                       /\ ForeignCalls(last.msg) # {} =>
        LET kept  == SelectSeq(rolling_buffer, LAMBDA e : ~HasTarget(e.line))
            block == IF kept = <<>> THEN <<>>
                     ELSE <<Printed(Join(Lines(kept)))>>
        IN  /\ [i \in 1..Len(Texts) |-> Texts[i].arg]
                   = block \o <<Printed(last.msg)>>
            /\ [i \in 1..Len(Texts) |-> Texts[i].site]
                   = [i \in 1..Len(block) |-> "lead_in"] \o <<"response">>
            /\ PrintActions
            /\ State = "Active"

\* A lead-in of two lines and the response have been printed and cut
C4_Witness ==
    /\ last.before = "Awaiting" /\ State = "Active"
    /\ Len(out) = 4
    /\ \A i \in 1..4 : out[i].ok
    /\ out[1].site = "lead_in" /\ Len(out[1].src) = 2
    /\ out[3].site = "response"

\* C5: the lead-in block holds only lines that arrived before the response
\* line; the response line is not in it.
C5_ResponseNotInLeadIn ==
    \A i \in 1..Len(out) :
        out[i].site = "lead_in" =>
            \A j \in 1..Len(out[i].src) : out[i].src[j].n < last.n

\* C6: with filtering enabled and a target call sign, no lead-in block has a
\* line that contains the target; every other text printed is the line being
\* processed, received in Active or as the valid response. So a line with
\* the target received in Idle or AwaitingResponse is printed only if it is
\* the valid response itself.
C6_NoTargetLineInLeadIn ==
    cfg.filter_enabled /\ cfg.call_sign # <<>> =>
        \A i \in 1..Len(Texts) :
            IF Texts[i].site = "lead_in"
            THEN /\ SplitLines(Texts[i].arg) = Lines(Texts[i].src)
                 /\ \A j \in 1..Len(Texts[i].src) :
                        ~HasTarget(Texts[i].src[j].line)
            ELSE /\ SplitLines(Texts[i].arg) = <<last.msg>>
                 /\ \/ last.before = "Active"
                    \/ /\ last.before = "Awaiting"
                       /\ ForeignCalls(last.msg) # {}

\* A lead-in has been printed while the buffer held a line with the target
\* that had been received in Idle or AwaitingResponse
C6_Witness ==
    /\ Len(Texts) = 2 /\ Texts[1].site = "lead_in" /\ Texts[1].ok
    /\ \E k \in 1..Len(rolling_buffer) :
           /\ HasTarget(rolling_buffer[k].line)
           /\ rolling_buffer[k].n < last.n
           /\ rolling_buffer[k].st \in {"Idle", "Awaiting"}

\* C7: every line of a lead-in block arrived at most 15 seconds before the
\* response line that flushed it.
C7_LeadInWithinWindow ==
    \A i \in 1..Len(Texts) :
        Texts[i].site = "lead_in" =>
            \A j \in 1..Len(Texts[i].src) :
                now - Texts[i].src[j].ts <= ROLLING_WINDOW

\* A lead-in has been printed that holds an earlier line still in the window
\* while the first line of the run, older than the window, is not in it
C7_Witness ==
    /\ qso_end = 0
    /\ now > ROLLING_WINDOW
    /\ Len(Texts) = 2 /\ Texts[1].site = "lead_in"
    /\ Texts[1].src[1].n > 1
    /\ Texts[1].src[1].ts < now

\* C8: in Active, a line gives exactly one print action, of that line, made
\* while the machine is still Active; then the machine is Idle with an empty
\* buffer if the line is a termination, and Active with the line in the
\* buffer if it is not.
C8_ActivePrintsThenResets ==
    cfg.filter_enabled /\ last.before = "Active" =>
        /\ Len(Texts) = 1
        /\ Texts[1].arg = Printed(last.msg)
        /\ out[1] = Texts[1]
        /\ out[1].active
        /\ PrintActions
        /\ IF is_termination(last.msg)
           THEN State = "Idle" /\ rolling_buffer = <<>>
           ELSE /\ State = "Active"
                /\ rolling_buffer # <<>>
                /\ rolling_buffer[Len(rolling_buffer)].line = last.msg
                /\ rolling_buffer[Len(rolling_buffer)].n = last.n

\* A terminating line has been printed and cut, and the machine is Idle
C8_Witness ==
    /\ last.before = "Active" /\ State = "Idle"
    /\ Len(out) = 2 /\ out[1].ok /\ out[2].ok

\* C9: after a QSO has ended, no line that arrived at or before its
\* terminating line is printed, not even in the lead-in of the next QSO.
C9_NoContextAcrossQSOs ==
    \A i \in 1..Len(Texts) :
        IF Texts[i].site = "lead_in"
        THEN \A j \in 1..Len(Texts[i].src) : Texts[i].src[j].n > qso_end
        ELSE \/ last.n > qso_end
             \/ last.n = qso_end /\ Texts[i].active

\* The lead-in of a second QSO has been printed, all of it at the same clock
\* reading as the first QSO
C9_Witness ==
    /\ qso_end > 0
    /\ now = 0
    /\ Len(Texts) = 2 /\ Texts[1].site = "lead_in"

\* C10: in AwaitingResponse, a line whose call signs are all the target (in
\* any letter case) or that has no call sign leaves the machine in
\* AwaitingResponse and prints nothing; the target is not in the set of
\* foreign calls of a line received in AwaitingResponse.
C10_OwnCallIsNoResponse ==
    cfg.filter_enabled /\ last.before = "Awaiting" =>
        /\ cfg.call_sign \notin all_calls(last.msg, cfg)
        /\ Upper(cfg.call_sign) \notin all_calls(last.msg, cfg)
        /\ extract_callsigns(last.msg) \subseteq {Upper(cfg.call_sign)}
               => State = "Awaiting" /\ out = <<>>

\* The target repeated in two letter cases has been received in
\* AwaitingResponse
C10_Witness ==
    /\ last.before = "Awaiting" /\ State = "Awaiting"
    /\ last.msg = <<"k","1","a"," ","K","1","A">>

\* C11: in Idle with filtering enabled and a target call sign, a line that
\* contains the target (with or without another call sign) takes the machine
\* to AwaitingResponse, any other line leaves it Idle; nothing is printed
\* and the line is the newest entry of the buffer.
C11_IdleHearsTarget ==
    cfg.filter_enabled /\ cfg.call_sign # <<>>
                       /\ last.n > 0 /\ last.before = "Idle" =>
        /\ out = <<>>
        /\ State = (IF HasTarget(last.msg) THEN "Awaiting" ELSE "Idle")
        /\ rolling_buffer # <<>>
        /\ rolling_buffer[Len(rolling_buffer)].line = last.msg
        /\ rolling_buffer[Len(rolling_buffer)].n = last.n

\* A line with the target and a foreign call sign has been received in Idle
C11_Witness ==
    /\ last.before = "Idle" /\ State = "Awaiting"
    /\ HasTarget(last.msg) /\ ForeignCalls(last.msg) # {}

\* C16: a target written in lower case in the configuration behaves as its
\* upper-case form: a line that contains it, in any letter case, takes the
\* machine from Idle to AwaitingResponse.
C16_LowerCaseTargetBehavesAsUpper ==
    cfg.filter_enabled /\ cfg.call_sign # <<>> =>
        (last.n > 0 /\ last.before = "Idle"
               /\ Contains(Upper(last.msg), Upper(cfg.call_sign))
               => State = "Awaiting")

\* C18: awaiting_response and printing_active are never both true.
C18_FlagsExclusive == ~(awaiting_response /\ printing_active)

\* A QSO has run from Idle through AwaitingResponse and Active back to Idle
\* and the call sign has been heard again
C18_Witness == qso_end > 0 /\ awaiting_response /\ ~printing_active

\* C20: with filtering enabled and an empty target call sign the machine
\* stays Idle and no printer call is made; lines only enter and leave the
\* rolling buffer.
C20_EmptyTargetStaysIdle ==
    cfg.filter_enabled /\ cfg.call_sign = <<>> =>
        /\ State = "Idle"
        /\ out = <<>>
        /\ fails = 0
        /\ qso_end = 0

\* With an empty target, lines have been buffered and the first was evicted
C20_Witness ==
    /\ cfg.filter_enabled /\ cfg.call_sign = <<>>
    /\ last.n >= 3
    /\ rolling_buffer # <<>> /\ rolling_buffer[1].n > 1

\* What the main loop decides for a line msg from the configuration, the two
\* flags, the buffer and the clock alone
Decided(msg) ==
    LET buf == Buffered(msg)
    IN  IF ~cfg.filter_enabled
        THEN [awaiting |-> awaiting_response, printing |-> printing_active,
              buffer |-> rolling_buffer]
        ELSE IF printing_active
        THEN [awaiting |-> awaiting_response /\ ~termination[msg],
              printing |-> ~termination[msg],
              buffer |-> IF termination[msg] THEN <<>> ELSE buf]
        ELSE IF awaiting_response
        THEN [awaiting |-> ~valid[msg, cfg], printing |-> valid[msg, cfg],
              buffer |-> buf]
        ELSE [awaiting |-> heard[msg, cfg], printing |-> FALSE,
              buffer |-> buf]

\* The arrival numbers of the lines whose text the call o carries, o being
\* made for line number n
Carried(o, n) ==
    IF o.site = "lead_in" THEN {e.n : e \in Range(o.src)} ELSE {n}

\* C12 as an action: whatever printer calls fail while a line is processed,
\* (a) the flags and the buffer after the line are those decided from the
\* state before it and the line alone; (b) no text() after a failed text()
\* carries a line the failed one carried, and every older line of a lead-in
\* was received without a print being attempted for it; (c) a failed
\* lead-in print is still followed by the print of the response.
C12_Line ==
    last'.n # last.n =>
        /\ [awaiting |-> awaiting_response', printing |-> printing_active',
            buffer |-> rolling_buffer'] = Decided(last'.msg)
        /\ \A i \in 1..Len(out') : \A j \in 1..Len(out') :
               i < j /\ out'[i].op = "text" /\ ~out'[i].ok
                     /\ out'[j].op = "text"
               => Carried(out'[i], last'.n) \cap Carried(out'[j], last'.n) = {}
        /\ \A i \in 1..Len(out') : \A e \in Range(out'[i].src) :
               e.n < last'.n =>
                   \/ e.st = "Idle"
                   \/ e.st = "Awaiting" /\ ~valid[e.line, cfg]
        /\ \A i \in 1..Len(out') :
               out'[i].site = "lead_in" /\ ~out'[i].ok =>
                   \E j \in (i + 1)..Len(out') :
                       out'[j].op = "text" /\ out'[j].site = "response"

\* C12: printer failures never influence the machine, a failed print is not
\* retried and its text is not printed by any later print action, and
\* processing goes on after a failure.
C12_SinkFailuresLeaveNoTrace == [][C12_Line]_vars

\* C13 as stated: among the printer calls, every text() is directly followed
\* by a cut() and every cut() directly preceded by a text(), also when calls
\* fail.
C13_EveryEmitThenCut ==
    \A i \in 1..Len(out) :
        /\ out[i].op = "text" => i < Len(out) /\ out[i + 1].op = "cut"
        /\ out[i].op = "cut" => i > 1 /\ out[i - 1].op = "text"

\* C13: every print action starts with one text(); a text() that returned is
\* directly followed by one cut(), a text() that raised ends its print
\* action with no cut(); every cut() is directly preceded by a text() that
\* returned. The calls made for a line start with a text().
C13_EmitThenCutUnlessEmitFailed ==
    /\ out # <<>> => out[1].op = "text"
    /\ \A i \in 1..Len(out) :
        /\ out[i].op = "text" /\ out[i].ok
               => i < Len(out) /\ out[i + 1].op = "cut"
        /\ out[i].op = "text" /\ ~out[i].ok
               => i = Len(out) \/ out[i + 1].op = "text"
        /\ out[i].op = "cut"
               => i > 1 /\ out[i - 1].op = "text" /\ out[i - 1].ok

\* The lead-in text() raised and the response was printed and cut after it
C13_Witness ==
    /\ Len(out) = 3
    /\ out[1].op = "text" /\ ~out[1].ok
    /\ out[2].op = "text" /\ out[2].ok
    /\ out[3].op = "cut"

\* The line received by this step with its arrival time, as pushed
Pushed ==
    [ts |-> now', line |-> last'.msg, n |-> last'.n, st |-> last'.before]

\* C17 for one line received with filtering enabled: the buffer after the
\* push and the eviction is the buffer before it plus the new entry, less
\* exactly the entries older than 15 at the arrival time (unless the line
\* closes a QSO, which empties the buffer afterwards); it is in
\* non-decreasing timestamp order and ends with the entry just pushed.
C17_PushAndEvict ==
    last'.n # last.n /\ cfg.filter_enabled =>
        LET kept == SelectSeq(Append(rolling_buffer, Pushed),
                              LAMBDA e : now' - e.ts <= ROLLING_WINDOW)
        IN  IF last'.before = "Active" /\ termination[last'.msg]
            THEN rolling_buffer' = <<>>
            ELSE /\ rolling_buffer' = kept
                 /\ rolling_buffer' # <<>>
                 /\ rolling_buffer'[Len(rolling_buffer')] = Pushed
                 /\ \A i \in 1..Len(rolling_buffer') :
                      \A j \in i..Len(rolling_buffer') :
                        rolling_buffer'[i].ts <= rolling_buffer'[j].ts

\* C17: buffer entries are in non-decreasing timestamp order and every
\* push-and-evict removes exactly the entries of age above 15: none stays
\* behind a fresher one, an entry of age exactly 15 stays, and so does the
\* entry just pushed.
C17_EvictionIsExact == [][C17_PushAndEvict]_vars

\* After an eviction the oldest entry left has age exactly 15
C17_Witness ==
    /\ Len(rolling_buffer) >= 2
    /\ rolling_buffer[1].n > 1
    /\ now - rolling_buffer[1].ts = ROLLING_WINDOW
    /\ rolling_buffer[Len(rolling_buffer)].n = last.n

\* C19 for one step: from AwaitingResponse the machine stays there or goes to
\* Active, and it goes to Active exactly on a line with a call sign other
\* than the target, whatever time has passed, whether or not the line has a
\* termination token and whether or not the line that had the target is
\* still in the buffer.
C19_Step ==
    awaiting_response /\ ~printing_active =>
        IF last'.n # last.n /\ ForeignCalls(last'.msg) # {}
        THEN printing_active' /\ ~awaiting_response'
        ELSE awaiting_response' /\ ~printing_active'

\* C19: AwaitingResponse has no timeout and no cancel; its only exit is to
\* Active on a valid response.
C19_AwaitingOnlyExitsToActive == [][C19_Step]_vars

\* Printing started on a response received more than 15 s after the target
\* was heard, the line with the target no longer being in the buffer
C19_Witness ==
    /\ last.before = "Awaiting" /\ printing_active
    /\ \A i \in 1..Len(rolling_buffer) : ~HasTarget(rolling_buffer[i].line)

\* C14: on every exit of a run in which the printer was opened, close() has
\* been called on the printer exactly once and the decoder process is not
\* left running; close() is never called twice.
C14_ReleasedOnEveryExit ==
    /\ printer.closed <= 1
    /\ pc \in {"returned", "raised"} /\ printer.class # "none" =>
           /\ printer.closed = 1
           /\ decoder # "running"

\* C15, the part on states: having met the end of the stream main does not
\* end with an error, and when it has returned the printer was closed once
\* and the decoder terminated.
C15_CleanExit ==
    exit = "eof" =>
        /\ pc \in {"close", "terminate", "returned"}
        /\ pc = "returned" => printer.closed = 1 /\ decoder = "terminated"
        /\ pc = "close" => printer.closed = 0 /\ decoder = "running"

\* C15, the part on steps: after the end of the stream no printer call is
\* made and the machine is left as it was
C15_NoPrintAfterEnd == exit = "eof" => UNCHANGED machine

\* C15: when the stream ends, in whatever state the machine is, main
\* eventually returns without an error, makes no further printer call
\* (lines still in the buffer are not printed), and has then closed the
\* printer and terminated the decoder.
C15_StreamEndShutsDown ==
    /\ [](C15_CleanExit)
    /\ [][C15_NoPrintAfterEnd]_vars
    /\ (exit = "eof" ~> pc = "returned")

\* main has returned after the end of the stream met in AwaitingResponse,
\* with lines in the buffer that were never printed
C15_Witness ==
    /\ exit = "eof" /\ pc = "returned"
    /\ awaiting_response
    /\ lead_in(rolling_buffer, cfg) # <<>>
    /\ out = <<>>

====
